---- MODULE Spec2Model ----
(***************************************************************************)
(* Model of the Telegram file-store bot of src/main.py: the link codec     *)
(* (encode / decode), the shortener rotation (get_short_link), the force-  *)
(* subscribe gate (check_force_sub), the /start pipeline (start_handler)   *)
(* and batch creation and lookup (batch_handler, save_batch, get_batch).   *)
(*                                                                         *)
(* A Python str is a sequence of one-character strings, a bytes object a   *)
(* sequence of numbers 0..255.                                             *)
(***************************************************************************)
EXTENDS Integers, Sequences, FiniteSets, TLC

VARIABLES
    FORCE_SUB_CHANNELS,   \* main.py:62  list of required channel ids
    SHORTENER_URLS,       \* main.py:74  list of shortener templates
    AUTO_DELETE_TIME,     \* main.py:69  seconds, 0 disables auto delete
    DB_URI,               \* main.py:65  TRUE iff a document store is connected
    users,                \* users_col as find_one sees it: user id -> UserRecord or NoUser
    batches,              \* batches_col: BatchRecords in insertion order
    req,                  \* the /start request being handled by start_handler
    batchReplies,         \* the replies batch_handler has sent to the admin
    short,                \* a call of get_short_link on one url
    codec,                \* a run of encode / decode on one input
    users_col,            \* users_col: its documents, in insertion order
    procs,                \* the concurrent /start handlers inside add_user
    bc,                   \* the run of the broadcast handler
    search                \* the run of search_handler on one text message

vars == <<FORCE_SUB_CHANNELS, SHORTENER_URLS, AUTO_DELETE_TIME, DB_URI,
          users, batches, req, batchReplies, short, codec,
          users_col, procs, bc, search>>

(***************************************************************************)
(* Bounds of the model.                                                    *)
(***************************************************************************)
\* every content id 1..MaxId is encoded and decoded (1, 2, 3 and 4 digits:
\* tokens of 2, 3, 4 and 6 characters)
MaxId == 1200
\* decode is applied to every string over TokenChars of at most MaxLen characters
MaxLen == 4
\* a broadcast runs over audiences of up to MaxAudience users
MaxAudience == 10
\* at most MaxBlocked users of the audience cannot be delivered to
MaxBlocked == 2
\* the platform raises at most MaxFloods throttle signals during one broadcast
MaxFloods == 2
\* search_handler is run on every text of 1..MaxQuery characters over QueryChars
MaxQuery == 4
\* at most MaxBatches BatchRecords are created
MaxBatches == 3

(***************************************************************************)
(* Strings.                                                                *)
(***************************************************************************)
RECURSIVE Repeat(_, _)
\* c * n of a one-character str c
Repeat(c, n) == IF n <= 0 THEN <<>> ELSE <<c>> \o Repeat(c, n - 1)

\* s.startswith(p)
StartsWith(s, p) == Len(s) >= Len(p) /\ SubSeq(s, 1, Len(p)) = p

\* s[k:], k counted from 0
Drop(s, k) == SubSeq(s, k + 1, Len(s))

\* index (from 1) of the first occurrence of p in s at or after position i; 0 if none
FindFrom(s, p, i) ==
    LET hits == {j \in i..(Len(s) - Len(p) + 1) : SubSeq(s, j, j + Len(p) - 1) = p}
    IN  IF hits = {} THEN 0 ELSE CHOOSE j \in hits : \A k \in hits : j <= k

RECURSIVE Replace(_, _, _)
\* s.replace(old, new) for a non-empty old: every non-overlapping occurrence,
\* leftmost first
Replace(s, old, new) ==
    LET j == FindFrom(s, old, 1)
    IN  IF j = 0 THEN s
        ELSE SubSeq(s, 1, j - 1) \o new \o Replace(Drop(s, j + Len(old) - 1), old, new)

RECURSIVE Split(_, _)
\* s.split(sep) for a one-character sep
Split(s, sep) ==
    LET j == FindFrom(s, <<sep>>, 1)
    IN  IF j = 0 THEN <<s>> ELSE <<SubSeq(s, 1, j - 1)>> \o Split(Drop(s, j), sep)

RECURSIVE StripChar(_, _)
\* s.strip(c) for a one-character c
StripChar(s, c) ==
    IF s = <<>> THEN s
    ELSE IF Head(s) = c THEN StripChar(Tail(s), c)
    ELSE IF s[Len(s)] = c THEN StripChar(SubSeq(s, 1, Len(s) - 1), c)
    ELSE s

(***************************************************************************)
(* base64 (the standard library, as main.py:201 and main.py:207 use it).   *)
(***************************************************************************)
\* the standard base64 alphabet; value v is at index v + 1
B64Alphabet ==
    << "A", "B", "C", "D", "E", "F", "G", "H", "I", "J", "K", "L", "M",
       "N", "O", "P", "Q", "R", "S", "T", "U", "V", "W", "X", "Y", "Z",
       "a", "b", "c", "d", "e", "f", "g", "h", "i", "j", "k", "l", "m",
       "n", "o", "p", "q", "r", "s", "t", "u", "v", "w", "x", "y", "z",
       "0", "1", "2", "3", "4", "5", "6", "7", "8", "9", "+", "/" >>

\* urlsafe_b64encode writes 62 as "-" and 63 as "_"
UrlSafeChar(v) == IF v = 62 THEN "-" ELSE IF v = 63 THEN "_" ELSE B64Alphabet[v + 1]

\* urlsafe_b64decode translates "-" to "+" and "_" to "/" and then decodes with
\* the standard table: both spellings are accepted. -1: not in the alphabet.
B64Value(c) ==
    IF c = "-" THEN 62
    ELSE IF c = "_" THEN 63
    ELSE IF \E i \in 1..64 : B64Alphabet[i] = c
         THEN (CHOOSE i \in 1..64 : B64Alphabet[i] = c) - 1
         ELSE -1

RECURSIVE b2a_base64(_)
\* base64.urlsafe_b64encode(bytes): 3 bytes to 4 characters, "=" padded
b2a_base64(bytes) ==
    IF bytes = <<>> THEN <<>>
    ELSE IF Len(bytes) = 1 THEN
        << UrlSafeChar(bytes[1] \div 4), UrlSafeChar((bytes[1] % 4) * 16), "=", "=" >>
    ELSE IF Len(bytes) = 2 THEN
        << UrlSafeChar(bytes[1] \div 4),
           UrlSafeChar((bytes[1] % 4) * 16 + (bytes[2] \div 16)),
           UrlSafeChar((bytes[2] % 16) * 4), "=" >>
    ELSE
        << UrlSafeChar(bytes[1] \div 4),
           UrlSafeChar((bytes[1] % 4) * 16 + (bytes[2] \div 16)),
           UrlSafeChar((bytes[2] % 16) * 4 + (bytes[3] \div 64)),
           UrlSafeChar(bytes[3] % 64) >> \o b2a_base64(Drop(bytes, 3))

RECURSIVE a2b_base64(_, _, _, _, _, _)
\* binascii.a2b_base64 in its default (non-strict) mode, from character i of s:
\* characters outside the alphabet are skipped, a "=" ends the data once the
\* current quad has 2 or 3 characters and the pads complete it, and data that
\* ends inside a quad is an error ("Incorrect padding").
a2b_base64(s, i, quad_pos, leftchar, pads, out) ==
    IF i > Len(s) THEN
        IF quad_pos # 0 THEN [ok |-> FALSE, bytes |-> <<>>]
        ELSE [ok |-> TRUE, bytes |-> out]
    ELSE IF s[i] = "=" THEN
        IF quad_pos >= 2 /\ quad_pos + pads + 1 >= 4
        THEN [ok |-> TRUE, bytes |-> out]
        ELSE a2b_base64(s, i + 1, quad_pos, leftchar,
                        IF quad_pos >= 2 THEN pads + 1 ELSE pads, out)
    ELSE LET v == B64Value(s[i]) IN
        IF v < 0 THEN a2b_base64(s, i + 1, quad_pos, leftchar, pads, out)
        ELSE IF quad_pos = 0 THEN a2b_base64(s, i + 1, 1, v, 0, out)
        ELSE IF quad_pos = 1 THEN
            a2b_base64(s, i + 1, 2, v % 16, 0, Append(out, leftchar * 4 + (v \div 16)))
        ELSE IF quad_pos = 2 THEN
            a2b_base64(s, i + 1, 3, v % 4, 0, Append(out, leftchar * 16 + (v \div 4)))
        ELSE a2b_base64(s, i + 1, 0, 0, 0, Append(out, leftchar * 64 + v))

\* base64.urlsafe_b64decode(s) for an ASCII str s
urlsafe_b64decode(s) == a2b_base64(s, 1, 0, 0, 0, <<>>)

(***************************************************************************)
(* bytes.decode() and int(str) (the built-ins main.py:207 uses).           *)
(***************************************************************************)
IsCont(b) == 128 <= b /\ b <= 191

RECURSIVE Utf8Decode(_, _, _)
\* bytes.decode(): strict UTF-8, from byte i; the code points, or an error
Utf8Decode(bytes, i, out) ==
    LET n  == Len(bytes)
        b  == bytes[i]
        Bad == [ok |-> FALSE, cps |-> <<>>]
    IN
    IF i > n THEN [ok |-> TRUE, cps |-> out]
    ELSE IF b < 128 THEN Utf8Decode(bytes, i + 1, Append(out, b))
    ELSE IF 194 <= b /\ b <= 223 THEN
        IF i + 1 <= n /\ IsCont(bytes[i + 1])
        THEN Utf8Decode(bytes, i + 2, Append(out, (b - 192) * 64 + (bytes[i + 1] - 128)))
        ELSE Bad
    ELSE IF 224 <= b /\ b <= 239 THEN
        IF /\ i + 2 <= n
           /\ (IF b = 224 THEN 160 ELSE 128) <= bytes[i + 1]
           /\ bytes[i + 1] <= (IF b = 237 THEN 159 ELSE 191)
           /\ IsCont(bytes[i + 2])
        THEN Utf8Decode(bytes, i + 3,
                 Append(out, (b - 224) * 4096 + (bytes[i + 1] - 128) * 64
                             + (bytes[i + 2] - 128)))
        ELSE Bad
    ELSE IF 240 <= b /\ b <= 244 THEN
        IF /\ i + 3 <= n
           /\ (IF b = 240 THEN 144 ELSE 128) <= bytes[i + 1]
           /\ bytes[i + 1] <= (IF b = 244 THEN 143 ELSE 191)
           /\ IsCont(bytes[i + 2])
           /\ IsCont(bytes[i + 3])
        THEN Utf8Decode(bytes, i + 4,
                 Append(out, (b - 240) * 262144 + (bytes[i + 1] - 128) * 4096
                             + (bytes[i + 2] - 128) * 64 + (bytes[i + 3] - 128)))
        ELSE Bad
    ELSE Bad

\* the code points of the digit zero of every Unicode decimal-digit range
\* (category Nd); the digits 1..9 of a range follow its zero
DecimalZeros ==
    { 48, 1632, 1776, 1984, 2406, 2534, 2662, 2790,
      2918, 3046, 3174, 3302, 3430, 3558, 3664, 3792,
      3872, 4160, 4240, 6112, 6160, 6470, 6608, 6784,
      6800, 6992, 7088, 7232, 7248, 42528, 43216, 43264,
      43472, 43504, 43600, 44016, 65296, 66720, 68912, 69734,
      69872, 69942, 70096, 70384, 70736, 70864, 71248, 71360,
      71472, 71904, 72016, 72784, 73040, 73120, 92768, 92864,
      93008, 120782, 120792, 120802, 120812, 120822, 123200, 123632,
      125264, 130032 }

\* the non-ASCII code points str.isspace() accepts
UnicodeSpaces ==
    { 133, 160, 5760, 8192, 8193, 8194, 8195, 8196, 8197, 8198, 8199, 8200,
      8201, 8202, 8232, 8233, 8239, 8287, 12288 }

\* the ASCII whitespace int() skips around the number: \t \n \v \f \r and " "
AsciiSpaces == {9, 10, 11, 12, 13, 32}

\* int(str) first maps every non-ASCII space to " " and every non-ASCII decimal
\* digit to its ASCII digit; 63 ("?") stands for any other non-ASCII character
ToAscii(cp) ==
    IF cp < 128 THEN cp
    ELSE IF cp \in UnicodeSpaces THEN 32
    ELSE IF \E z \in DecimalZeros : z <= cp /\ cp <= z + 9
         THEN 48 + cp - (CHOOSE z \in DecimalZeros : z <= cp /\ cp <= z + 9)
         ELSE 63

RECURSIVE SkipSpaces(_, _)
SkipSpaces(t, i) ==
    IF i <= Len(t) /\ t[i] \in AsciiSpaces THEN SkipSpaces(t, i + 1) ELSE i

RECURSIVE ParseDigits(_, _, _, _, _)
\* the digits of a base-10 literal from position i: single underscores are
\* allowed between digits only. [ok, val, next]
ParseDigits(t, i, val, ndigits, prevUnderscore) ==
    IF i <= Len(t) /\ 48 <= t[i] /\ t[i] <= 57
    THEN ParseDigits(t, i + 1, val * 10 + (t[i] - 48), ndigits + 1, FALSE)
    ELSE IF i <= Len(t) /\ t[i] = 95
    THEN IF prevUnderscore THEN [ok |-> FALSE, val |-> 0, next |-> i]
         ELSE ParseDigits(t, i + 1, val, ndigits, TRUE)
    ELSE [ok |-> ndigits > 0 /\ ~prevUnderscore, val |-> val, next |-> i]

\* int(str) in base 10 for the code points cps: optional whitespace, an optional
\* sign, the digits, optional whitespace; anything else is a ValueError
IntOf(cps) ==
    LET t    == [k \in 1..Len(cps) |-> ToAscii(cps[k])]
        i    == SkipSpaces(t, 1)
        neg  == i <= Len(t) /\ t[i] = 45
        j    == IF i <= Len(t) /\ t[i] \in {43, 45} THEN i + 1 ELSE i
        d    == ParseDigits(t, j, 0, 0, TRUE)
        e    == SkipSpaces(t, d.next)
    IN  IF d.ok /\ e = Len(t) + 1
        THEN [ok |-> TRUE, val |-> IF neg THEN 0 - d.val ELSE d.val]
        ELSE [ok |-> FALSE, val |-> 0]

RECURSIVE StrOfNat(_)
\* str(n).encode() for n >= 0: the ASCII codes of the decimal digits
StrOfNat(n) == IF n < 10 THEN <<48 + n>> ELSE Append(StrOfNat(n \div 10), 48 + (n % 10))

\* str(msg_id).encode()
StrOfInt(n) == IF n < 0 THEN <<45>> \o StrOfNat(0 - n) ELSE StrOfNat(n)

(***************************************************************************)
(* The link codec, main.py:199-209.                                        *)
(***************************************************************************)
\* main.py:201
encode(msg_id) == StripChar(b2a_base64(StrOfInt(msg_id)), "=")

\* a faulty variant of Padding: the stripped padding is not restored
PaddingNone(payload) == <<>>

\* main.py:206  padding = '=' * (4 - len(payload) % 4)
Padding(payload) == Repeat("=", 4 - (Len(payload) % 4))

\* main.py:203-209
decode(payload) ==
    LET raw == urlsafe_b64decode(payload \o Padding(payload))
        txt == IF raw.ok THEN Utf8Decode(raw.bytes, 1, <<>>) ELSE [ok |-> FALSE, cps |-> <<>>]
        num == IF txt.ok THEN IntOf(txt.cps) ELSE [ok |-> FALSE, val |-> 0]
    IN  IF num.ok THEN num.val ELSE 0

(***************************************************************************)
(* The values of the model.                                                *)
(***************************************************************************)
UserIds == {1, 2}

\* users_col.find_one returns None for a user that has no record
NoUser == [present |-> FALSE, is_premium |-> FALSE, banned |-> FALSE]

\* main.py:116-122  the record add_user inserts
NewUser == [present |-> TRUE, is_premium |-> FALSE, banned |-> FALSE]

\* the records the store can hold: is_premium and banned are set by the
\* administrator directly in the store
UserRecords == {NoUser} \cup
    {[present |-> TRUE, is_premium |-> p, banned |-> b] : p, b \in BOOLEAN}

\* the outcomes of client.get_chat_member: a member status or an exception
LookupResults == {"MEMBER", "RESTRICTED", "LEFT", "BANNED", "UserNotParticipant", "Exception"}

VERIFY == <<"v", "e", "r", "i", "f", "y", "_">>
BATCH == <<"b", "a", "t", "c", "h", "_">>

\* random.choices(ascii_letters + digits, k=8) of main.py:168, drawn here from
\* two identifiers
BatchIdSpace == {<<"b", "1">>, <<"b", "2">>}

\* the message ids of the storage channel
MsgIds == 1..3

\* f"https://t.me/{client.me.username}?start={payload}"
DeepLink(payload) == [kind |-> "deep_link", start |-> payload, key |-> ""]

\* the url a shortener provider answers under a key of its JSON
ShortUrl(key) == [kind |-> "short", start |-> <<>>, key |-> key]

(***************************************************************************)
(* get_short_link, main.py:219-236.                                        *)
(***************************************************************************)
\* the value of a JSON key that is absent, null or empty: data.get(key) is falsy
NoValue == [kind |-> "none", start |-> <<>>, key |-> ""]

\* what the provider call does: it raises (network error, timeout), answers
\* something that is not JSON (resp.json() raises), answers JSON that is no
\* object (data.get raises), or answers a JSON object
ShortenerResponses ==
    {[kind |-> k, shortenedUrl |-> NoValue, url |-> NoValue, short_url |-> NoValue] :
        k \in {"raise", "not_json", "not_object"}}
    \cup
    {[kind |-> "json", shortenedUrl |-> a, url |-> b, short_url |-> c] :
        a \in {NoValue, ShortUrl("shortenedUrl")},
        b \in {NoValue, ShortUrl("url")},
        c \in {NoValue, ShortUrl("short_url")}}

\* main.py:233  the last operand of the "or" chain
ShortenerFallback(long_url) == long_url

\* main.py:228-233  the body of the try: it raises, or returns the first truthy
\* value of the recognized keys, or long_url
ShortenerTry(long_url, response) ==
    IF response.kind # "json" THEN [raised |-> TRUE, url |-> NoValue]
    ELSE IF response.shortenedUrl # NoValue
    THEN [raised |-> FALSE, url |-> response.shortenedUrl]
    ELSE IF response.url # NoValue THEN [raised |-> FALSE, url |-> response.url]
    ELSE IF response.short_url # NoValue
    THEN [raised |-> FALSE, url |-> response.short_url]
    ELSE [raised |-> FALSE, url |-> ShortenerFallback(long_url)]

\* a faulty variant of ShortenerExcept: the exception reaches the caller
ShortenerExceptRaise(long_url) == [raised |-> TRUE, url |-> NoValue]

\* main.py:234-236  except Exception: return long_url
ShortenerExcept(long_url) == [raised |-> FALSE, url |-> long_url]

\* main.py:219-236 with the template random.choice drew and the provider's
\* response: whether the call raised, the url returned, the HTTP calls issued
get_short_link(long_url, template, response) ==
    IF SHORTENER_URLS = <<>>
    THEN [raised |-> FALSE, url |-> long_url, http |-> <<>>]
    ELSE LET call == <<[template |-> template, quoted |-> long_url]>>
             r == ShortenerTry(long_url, response)
             e == ShortenerExcept(long_url)
         IN  IF r.raised THEN [raised |-> e.raised, url |-> e.url, http |-> call]
             ELSE [raised |-> FALSE, url |-> r.url, http |-> call]

\* the templates random.choice(SHORTENER_URLS) can draw
Templates == {SHORTENER_URLS[i] : i \in 1..Len(SHORTENER_URLS)}

(***************************************************************************)
(* check_force_sub, main.py:253-265.                                       *)
(***************************************************************************)
\* a faulty variant of LookupMissing: a failed lookup counts as missing (fail closed)
LookupMissingFailClosed(result) ==
    result \in {"BANNED", "LEFT", "UserNotParticipant", "Exception"}

\* main.py:259-264
LookupMissing(result) == result \in {"BANNED", "LEFT", "UserNotParticipant"}

RECURSIVE ForceSubLoop(_, _, _)
\* main.py:256-264  the loop over FORCE_SUB_CHANNELS from channel i
ForceSubLoop(results, i, missing) ==
    IF i > Len(FORCE_SUB_CHANNELS) THEN missing
    ELSE ForceSubLoop(results, i + 1,
             IF LookupMissing(results[i])
             THEN Append(missing, FORCE_SUB_CHANNELS[i]) ELSE missing)

\* main.py:253-265 with results[i] the outcome of the lookup of channel i
check_force_sub(results) ==
    IF FORCE_SUB_CHANNELS = <<>> THEN <<>> ELSE ForceSubLoop(results, 1, <<>>)

\* the get_chat_member calls of check_force_sub
ForceSubLookups ==
    [i \in 1..Len(FORCE_SUB_CHANNELS) |->
        [op |-> "get_chat_member", arg |-> FORCE_SUB_CHANNELS[i]]]

(***************************************************************************)
(* The store, main.py:113-180.                                             *)
(***************************************************************************)
\* main.py:131-134
get_user(user_id) == IF DB_URI THEN users[user_id] ELSE NoUser

\* no BatchRecord: get_batch returns None
NoBatch == [found |-> FALSE, batch_id |-> <<>>, range_ids |-> <<>>]

\* main.py:177-180  find_one returns the first matching record, in insertion order
get_batch(batch_id) ==
    LET hits == {k \in 1..Len(batches) : batches[k].batch_id = batch_id} IN
    IF ~DB_URI \/ hits = {} THEN NoBatch
    ELSE batches[CHOOSE k \in hits : \A j \in hits : k <= j]

\* list(range(start_id, end_id + 1)), main.py:547
Range(start_id, end_id) ==
    IF end_id < start_id THEN <<>>
    ELSE [k \in 1..(end_id - start_id + 1) |-> start_id + k - 1]

(***************************************************************************)
(* start_handler, main.py:355-469.  One request is handled at a time; log  *)
(* is the sequence of the calls the handler has made for it.               *)
(***************************************************************************)
IdleReq ==
    [pc |-> "idle", user_id |-> 0, payload |-> <<>>, user |-> NoUser,
     results |-> <<>>, missing |-> <<>>, mode |-> "", msg_id |-> 0,
     range_ids |-> <<>>, idx |-> 0, log |-> <<>>]

Event(op, arg) == [op |-> op, arg |-> arg]

\* message.reply / message.reply_text
Reply(kind, buttons) == Event("reply", [kind |-> kind, buttons |-> buttons])

\* the calls of one kind in a log, in order
Ops(log, op) == SelectSeq(log, LAMBDA e : e.op = op)

\* the /start payloads users send: plain tokens (valid, malformed and tokens
\* that are no output of encode), verify_ and batch_ payloads, payloads whose
\* prefix differs in case, and no payload at all (<<>>)
PlainTokens ==
    { encode(1), encode(12), encode(123),
      <<"M">>,
      <<"M", "!", "Q", "!">>,
      <<"M", "_", "C", "d", "n", "4", "8">> }

Payloads ==
    {<<>>}
    \cup PlainTokens
    \cup {VERIFY \o t : t \in PlainTokens}
    \cup {VERIFY, VERIFY \o encode(1) \o <<"_", "x">>}
    \cup {BATCH \o b : b \in BatchIdSpace}
    \cup {BATCH, <<"b", "a", "t", "c", "h">>}
    \cup {<<"V", "e", "r", "i", "f", "y", "_">> \o encode(1),
          <<"B", "A", "T", "C", "H", "_", "b", "1">>}

\* a /start message arrives
StartRequest(user_id, payload) ==
    /\ req.pc \in {"idle", "done", "raised"}
    /\ req' = [IdleReq EXCEPT !.pc = "add_user", !.user_id = user_id,
                              !.payload = payload]
    /\ UNCHANGED <<FORCE_SUB_CHANNELS, SHORTENER_URLS, AUTO_DELETE_TIME, DB_URI,
                   users, batches, batchReplies, short, codec,
                   users_col, procs, bc, search>>

\* main.py:358, add_user (main.py:113-122): insert the record if there is none
AddUser ==
    /\ req.pc = "add_user"
    /\ users' = IF DB_URI /\ ~users[req.user_id].present
                THEN [users EXCEPT ![req.user_id] = NewUser] ELSE users
    /\ req' = [req EXCEPT !.pc = "get_user"]
    /\ UNCHANGED <<FORCE_SUB_CHANNELS, SHORTENER_URLS, AUTO_DELETE_TIME, DB_URI,
                   batches, batchReplies, short, codec,
                   users_col, procs, bc, search>>

\* a faulty variant of IsBanned: the ban flag is not looked at
IsBannedNever(user) == FALSE

\* main.py:362  if user and user.get("banned", False)
IsBanned(user) == user.present /\ user.banned

\* main.py:361-380: the ban check, then the home screen for a bare /start
CheckBan ==
    /\ req.pc = "get_user"
    /\ LET user == get_user(req.user_id) IN
       req' = IF IsBanned(user)
              THEN [req EXCEPT !.pc = "done", !.user = user,
                               !.log = Append(@, Reply("banned", <<>>))]
              ELSE IF req.payload = <<>>
              THEN [req EXCEPT !.pc = "done", !.user = user,
                               !.log = Append(@, Reply("home", <<>>))]
              ELSE [req EXCEPT !.pc = "force_sub", !.user = user]
    /\ UNCHANGED <<FORCE_SUB_CHANNELS, SHORTENER_URLS, AUTO_DELETE_TIME, DB_URI,
                   users, batches, batchReplies, short, codec,
                   users_col, procs, bc, search>>

\* main.py:383-384: the membership gap of this request
ForceSubCheck ==
    /\ req.pc = "force_sub"
    /\ \E results \in [1..Len(FORCE_SUB_CHANNELS) -> LookupResults] :
         LET missing == check_force_sub(results) IN
         req' = [req EXCEPT !.pc = IF missing # <<>> THEN "denied" ELSE "passed",
                            !.results = results,
                            !.missing = missing,
                            !.log = @ \o ForceSubLookups]
    /\ UNCHANGED <<FORCE_SUB_CHANNELS, SHORTENER_URLS, AUTO_DELETE_TIME, DB_URI,
                   users, batches, batchReplies, short, codec,
                   users_col, procs, bc, search>>

\* main.py:386-393: one button per missing channel, with the invite link of
\* get_chat or, when get_chat raises, the fallback link
JoinButtons(missing, chat_ok) ==
    [i \in 1..Len(missing) |->
        [kind |-> "join", n |-> i, channel |-> missing[i],
         url |-> IF chat_ok[i] THEN "invite_link" ELSE "fallback",
         start |-> <<>>]]

\* a faulty variant of orig: the retry link carries the payload as it came
origUnchanged(payload) == payload

\* main.py:395
orig(payload) == Replace(payload, VERIFY, <<>>)

\* main.py:396
RetryButton(payload) ==
    [kind |-> "retry", n |-> 0, channel |-> "", url |-> "deep_link",
     start |-> orig(payload)]

\* a faulty variant of AfterDenied: the handler goes on after the access-denied reply
AfterDeniedContinue == "passed"

\* main.py:402  return
AfterDenied == "done"

\* main.py:384-402: the access-denied reply
AccessDenied ==
    /\ req.pc = "denied"
    /\ \E chat_ok \in [1..Len(req.missing) -> BOOLEAN] :
         req' = [req EXCEPT
                   !.pc = AfterDenied,
                   !.results = <<>>,
                   !.log = @ \o [i \in 1..Len(req.missing) |->
                                    Event("get_chat", req.missing[i])]
                             \o <<Reply("access_denied",
                                        Append(JoinButtons(req.missing, chat_ok),
                                               RetryButton(req.payload)))>>]
    /\ UNCHANGED <<FORCE_SUB_CHANNELS, SHORTENER_URLS, AUTO_DELETE_TIME, DB_URI,
                   users, batches, batchReplies, short, codec,
                   users_col, procs, bc, search>>

\* a faulty variant of CopyMessage: no deletion of the copy is scheduled
CopyMessageNoTask(msg_id, ok) ==
    <<Event("copy_message", [msg_id |-> msg_id, ok |-> ok])>>

\* main.py:416-418, 433-437, 466-468: copy_message and, when it succeeds and
\* auto delete is on, the deletion task of the copy
CopyMessage(msg_id, ok) ==
    <<Event("copy_message", [msg_id |-> msg_id, ok |-> ok])>>
    \o (IF ok /\ AUTO_DELETE_TIME > 0
        THEN <<Event("create_task", "file")>> ELSE <<>>)

\* main.py:405-413: a batch_ payload; the batch is looked up
BatchMode ==
    /\ req.pc = "passed"
    /\ StartsWith(req.payload, BATCH)
    /\ LET batch_id == Split(req.payload, "_")[2]
           batch_data == get_batch(batch_id)
       IN  req' = IF ~batch_data.found
                  THEN [req EXCEPT !.pc = "done", !.mode = "batch", !.results = <<>>,
                                   !.log = @ \o <<Event("get_batch", batch_id),
                                                  Reply("batch_not_found", <<>>)>>]
                  ELSE [req EXCEPT !.pc = "batch_loop", !.mode = "batch",
                                   !.results = <<>>,
                                   !.range_ids = batch_data.range_ids,
                                   !.idx = 1,
                                   !.log = @ \o <<Event("get_batch", batch_id),
                                                  Reply("processing", <<>>)>>]
    /\ UNCHANGED <<FORCE_SUB_CHANNELS, SHORTENER_URLS, AUTO_DELETE_TIME, DB_URI,
                   users, batches, batchReplies, short, codec,
                   users_col, procs, bc, search>>

\* a faulty variant of AfterItem: a failed copy ends the loop
AfterItemBreak(idx, ok) == IF ok THEN idx + 1 ELSE Len(req.range_ids) + 1

\* main.py:414, 420  "except Exception: pass": the loop goes on with the next
\* id whether the copy succeeded or raised
AfterItem(idx, ok) == idx + 1

\* main.py:414-420: one item of the batch; the sleep follows a successful copy
BatchItem ==
    /\ req.pc = "batch_loop"
    /\ req.idx <= Len(req.range_ids)
    /\ \E ok \in BOOLEAN :
         req' = [req EXCEPT
                   !.idx = AfterItem(@, ok),
                   !.log = @ \o CopyMessage(req.range_ids[req.idx], ok)
                             \o (IF ok THEN <<Event("sleep", "0.8")>> ELSE <<>>)]
    /\ UNCHANGED <<FORCE_SUB_CHANNELS, SHORTENER_URLS, AUTO_DELETE_TIME, DB_URI,
                   users, batches, batchReplies, short, codec,
                   users_col, procs, bc, search>>

\* main.py:421-422: the status message is removed
BatchEnd ==
    /\ req.pc = "batch_loop"
    /\ req.idx > Len(req.range_ids)
    /\ req' = [req EXCEPT !.pc = "done", !.log = Append(@, Event("delete", "status"))]
    /\ UNCHANGED <<FORCE_SUB_CHANNELS, SHORTENER_URLS, AUTO_DELETE_TIME, DB_URI,
                   users, batches, batchReplies, short, codec,
                   users_col, procs, bc, search>>

\* a faulty variant of InvalidLink: no decoded id is rejected
InvalidLinkNever(msg_id) == FALSE

\* main.py:429 and main.py:447  if msg_id == 0
InvalidLink(msg_id) == msg_id = 0

\* main.py:425-442: a verify_ payload; the copy, then the note, both inside the
\* try: a note that cannot be sent is answered like a failed copy
VerifyMode ==
    /\ req.pc = "passed"
    /\ ~StartsWith(req.payload, BATCH)
    /\ StartsWith(req.payload, VERIFY)
    /\ LET real_code == Split(req.payload, "_")[2]
           msg_id == decode(real_code)
       IN  IF InvalidLink(msg_id)
           THEN req' = [req EXCEPT !.pc = "done", !.mode = "verify", !.results = <<>>,
                                   !.msg_id = msg_id,
                                   !.log = Append(@, Reply("invalid_link", <<>>))]
           ELSE \E ok, note_ok \in BOOLEAN :
                  /\ (~ok \/ AUTO_DELETE_TIME = 0) => note_ok
                  /\ req' = [req EXCEPT
                       !.pc = "done", !.mode = "verify", !.results = <<>>,
                       !.msg_id = msg_id,
                       !.log = @ \o CopyMessage(msg_id, ok)
                                 \o (IF ok /\ AUTO_DELETE_TIME > 0 /\ note_ok
                                     THEN <<Reply("note", <<>>),
                                            Event("create_task", "note")>>
                                     ELSE <<>>)
                                 \o (IF ~ok \/ ~note_ok
                                     THEN <<Reply("error_fetching", <<>>)>>
                                     ELSE <<>>)]
    /\ UNCHANGED <<FORCE_SUB_CHANNELS, SHORTENER_URLS, AUTO_DELETE_TIME, DB_URI,
                   users, batches, batchReplies, short, codec,
                   users_col, procs, bc, search>>

\* main.py:450-452
is_prem(user) == user.present /\ user.is_premium

\* a faulty variant of NeedsVerification: premium users are sent to the shortener too
NeedsVerificationAll(user) == SHORTENER_URLS # <<>>

\* main.py:454  if SHORTENER_URLS and not is_prem
NeedsVerification(user) == SHORTENER_URLS # <<>> /\ ~is_prem(user)

\* main.py:455
verify_link(code) == DeepLink(VERIFY \o code)

\* main.py:445-469: a plain token; the verification link or the direct copy
NormalMode ==
    /\ req.pc = "passed"
    /\ ~StartsWith(req.payload, BATCH)
    /\ ~StartsWith(req.payload, VERIFY)
    /\ LET code == req.payload
           msg_id == decode(code)
       IN  IF InvalidLink(msg_id)
           THEN req' = [req EXCEPT !.pc = "done", !.mode = "normal", !.results = <<>>,
                                   !.msg_id = msg_id,
                                   !.log = Append(@, Reply("invalid_link", <<>>))]
           ELSE IF NeedsVerification(req.user)
           THEN \E template \in Templates, response \in ShortenerResponses :
                  LET r == get_short_link(verify_link(code), template, response) IN
                  req' = [req EXCEPT
                       !.pc = IF r.raised THEN "raised" ELSE "done",
                       !.mode = "normal", !.results = <<>>,
                       !.msg_id = msg_id,
                       !.log = @ \o <<Event("get_short_link", verify_link(code))>>
                                 \o [k \in 1..Len(r.http) |-> Event("http_get", r.http[k])]
                                 \o (IF r.raised THEN <<>>
                                     ELSE <<Reply("unlock", <<r.url>>)>>)]
           ELSE \E ok \in BOOLEAN :
                  req' = [req EXCEPT
                       !.pc = "done", !.mode = "normal", !.results = <<>>,
                       !.msg_id = msg_id,
                       !.log = @ \o CopyMessage(msg_id, ok)
                                 \o (IF ok THEN <<>>
                                     ELSE <<Reply("error_fetching", <<>>)>>)]
    /\ UNCHANGED <<FORCE_SUB_CHANNELS, SHORTENER_URLS, AUTO_DELETE_TIME, DB_URI,
                   users, batches, batchReplies, short, codec,
                   users_col, procs, bc, search>>

(***************************************************************************)
(* The handlers that have a specification of their own further down are at *)
(* rest in the other specifications.                                       *)
(***************************************************************************)
\* the /start handlers that can be inside add_user at the same time
Procs == {1, 2}

IdleProc == [pc |-> "idle", user_id |-> 0]

IdleBc ==
    [pc |-> "idle", total |-> 0, success |-> 0, failed |-> 0, idx |-> 0,
     value |-> 0, floods |-> 0, blocked |-> {}, log |-> <<>>]

IdleSearch == [pc |-> "idle", query |-> <<>>, log |-> <<>>]

AtRest ==
    /\ users_col = <<>>
    /\ procs = [p \in Procs |-> IdleProc]
    /\ bc = IdleBc
    /\ search = IdleSearch

(***************************************************************************)
(* The specification of the /start pipeline.                               *)
(***************************************************************************)
NoResponse ==
    [kind |-> "none", shortenedUrl |-> NoValue, url |-> NoValue, short_url |-> NoValue]

IdleShort ==
    [pc |-> "idle", long_url |-> NoValue, template |-> "", response |-> NoResponse,
     raised |-> FALSE, url |-> NoValue, http |-> <<>>]

IdleCodec == [pc |-> "idle", id |-> 0, token |-> <<>>, out |-> 0]

\* the stores batch_handler can have left behind: none, one batch, two
\* batches that drew the same identifier, and a batch of three ids next to one
\* created with a last id below its first id
StoredBatches ==
    { <<>>,
      <<[found |-> TRUE, batch_id |-> <<"b", "1">>, range_ids |-> Range(1, 2)]>>,
      <<[found |-> TRUE, batch_id |-> <<"b", "1">>, range_ids |-> Range(2, 3)],
        [found |-> TRUE, batch_id |-> <<"b", "1">>, range_ids |-> Range(1, 1)]>>,
      <<[found |-> TRUE, batch_id |-> <<"b", "1">>, range_ids |-> Range(1, 3)],
        [found |-> TRUE, batch_id |-> <<"b", "2">>, range_ids |-> Range(3, 2)]>> }

Init ==
    /\ FORCE_SUB_CHANNELS \in {<<>>, <<"c1", "c2">>}
    /\ SHORTENER_URLS \in {<<>>, <<"s1", "s2">>}
    /\ AUTO_DELETE_TIME \in {0, 600}
    /\ DB_URI \in BOOLEAN
    /\ users \in [UserIds -> UserRecords]
    /\ DB_URI \/ users = [u \in UserIds |-> NoUser]
    /\ batches \in StoredBatches
    /\ DB_URI \/ batches = <<>>
    /\ req = IdleReq
    /\ batchReplies = <<>>
    /\ short = IdleShort
    /\ codec = IdleCodec
    /\ AtRest

Next ==
    \/ \E user_id \in UserIds, payload \in Payloads : StartRequest(user_id, payload)
    \/ AddUser
    \/ CheckBan
    \/ ForceSubCheck
    \/ AccessDenied
    \/ BatchMode
    \/ BatchItem
    \/ BatchEnd
    \/ VerifyMode
    \/ NormalMode

Spec == Init /\ [][Next]_vars

\* the /start pipeline with the scheduling of the event loop: a handler that
\* is inside its batch loop is resumed until it returns
SpecDelivery == Spec /\ WF_vars(BatchItem) /\ WF_vars(BatchEnd)

(***************************************************************************)
(* The specification of the link codec: encode and decode applied to every *)
(* content id 1..MaxId and to larger ids of every length up to the largest *)
(* message id, and decode to every string of at most MaxLen characters     *)
(* over TokenChars.                                                        *)
(***************************************************************************)
\* characters of tokens, the padding character, and a character outside the
\* base64 alphabet
TokenChars == {"M", "Q", "T", "I", "z", "=", "!", "_"}

Strings(n) == UNION {[1..k -> TokenChars] : k \in 0..n}

\* ids of 5 to 10 digits (tokens of 7, 8, 10, 11, 12 and 14 characters), up to
\* the largest 32-bit message id
LargeIds == {12345, 99999, 100000, 123456, 999999, 1234567, 12345678,
             123456789, 999999999, 1000000000, 2147483647}

Quiet ==
    /\ FORCE_SUB_CHANNELS = <<>>
    /\ AUTO_DELETE_TIME = 0
    /\ users = [u \in UserIds |-> NoUser]
    /\ batches = <<>>
    /\ req = IdleReq
    /\ batchReplies = <<>>

InitCodec ==
    /\ Quiet
    /\ AtRest
    /\ SHORTENER_URLS = <<>>
    /\ DB_URI = TRUE
    /\ short = IdleShort
    /\ codec \in {[pc |-> "id", id |-> i, token |-> <<>>, out |-> 0] :
                    i \in (1..MaxId) \cup LargeIds}
            \cup {[pc |-> "given", id |-> 0, token |-> s, out |-> 0] : s \in Strings(MaxLen)}

\* encode(msg_id), as index_files calls it for a message of the storage channel
Encode ==
    /\ codec.pc = "id"
    /\ codec' = [codec EXCEPT !.pc = "encoded", !.token = encode(codec.id)]
    /\ UNCHANGED <<FORCE_SUB_CHANNELS, SHORTENER_URLS, AUTO_DELETE_TIME, DB_URI,
                   users, batches, req, batchReplies, short,
                   users_col, procs, bc, search>>

\* decode(payload), of a token encode made or of a given string
Decode ==
    /\ codec.pc \in {"encoded", "given"}
    /\ codec' = [codec EXCEPT !.pc = IF codec.pc = "encoded" THEN "roundtrip" ELSE "decoded",
                              !.out = decode(codec.token)]
    /\ UNCHANGED <<FORCE_SUB_CHANNELS, SHORTENER_URLS, AUTO_DELETE_TIME, DB_URI,
                   users, batches, req, batchReplies, short,
                   users_col, procs, bc, search>>

NextCodec == Encode \/ Decode

SpecCodec == InitCodec /\ [][NextCodec]_vars

(***************************************************************************)
(* The specification of get_short_link: one call on a verification link,   *)
(* for every pool, template and provider response.                         *)
(***************************************************************************)
InitShort ==
    /\ Quiet
    /\ AtRest
    /\ SHORTENER_URLS \in {<<>>, <<"s1">>, <<"s1", "s2">>}
    /\ DB_URI = TRUE
    /\ codec = IdleCodec
    /\ short \in {[IdleShort EXCEPT !.pc = "called", !.long_url = verify_link(t)] :
                    t \in PlainTokens}

\* main.py:219-236; with an empty pool no template is drawn and no call is made
GetShortLink ==
    /\ short.pc = "called"
    /\ \E template \in (IF SHORTENER_URLS = <<>> THEN {""} ELSE Templates),
          response \in (IF SHORTENER_URLS = <<>> THEN {NoResponse} ELSE ShortenerResponses) :
         LET r == get_short_link(short.long_url, template, response) IN
         short' = [short EXCEPT !.pc = "returned", !.template = template,
                                !.response = response, !.raised = r.raised,
                                !.url = r.url, !.http = r.http]
    /\ UNCHANGED <<FORCE_SUB_CHANNELS, SHORTENER_URLS, AUTO_DELETE_TIME, DB_URI,
                   users, batches, req, batchReplies, codec,
                   users_col, procs, bc, search>>

NextShort == GetShortLink

SpecShort == InitShort /\ [][NextShort]_vars

(***************************************************************************)
(* batch_handler, main.py:532-558, and the specification of batch creation.*)
(***************************************************************************)
\* main.py:166-174 with the identifier random.choices drew: the store after
\* insert_one
save_batch(range_ids, batch_id) ==
    Append(batches, [found |-> TRUE, batch_id |-> batch_id, range_ids |-> range_ids])

BatchReply(kind, start_id, end_id, batch_id, files) ==
    [kind |-> kind, start_id |-> start_id, end_id |-> end_id,
     batch_id |-> batch_id, files |-> files]

\* the argument of /batch: none (command[1] raises IndexError), a text whose
\* last "/" part is no number (int raises ValueError), or a link to message last
BatchArgs ==
    {[kind |-> k, last |-> 0] : k \in {"missing", "text"}}
    \cup {[kind |-> "link", last |-> n] : n \in MsgIds}

\* main.py:532-558; reply_to is the id of the replied-to message, 0 for none
batch_handler(reply_to, arg) ==
    /\ Len(batchReplies) < MaxBatches
    /\ IF ~DB_URI
       THEN /\ batchReplies' = Append(batchReplies,
                                      BatchReply("mongodb_required", 0, 0, <<>>, 0))
            /\ UNCHANGED batches
       ELSE IF reply_to = 0
       THEN /\ batchReplies' = Append(batchReplies, BatchReply("usage", 0, 0, <<>>, 0))
            /\ UNCHANGED batches
       ELSE IF arg.kind # "link"
       THEN /\ batchReplies' = Append(batchReplies,
                                      BatchReply("error", reply_to, 0, <<>>, 0))
            /\ UNCHANGED batches
       ELSE LET start_id == reply_to
                end_id == arg.last
                range_ids == Range(start_id, end_id)
            IN  \E batch_id \in BatchIdSpace :
                  /\ batches' = save_batch(range_ids, batch_id)
                  /\ batchReplies' = Append(batchReplies,
                         BatchReply("created", start_id, end_id, batch_id, Len(range_ids)))
    /\ UNCHANGED <<FORCE_SUB_CHANNELS, SHORTENER_URLS, AUTO_DELETE_TIME, DB_URI,
                   users, req, short, codec,
                   users_col, procs, bc, search>>

InitBatch ==
    /\ FORCE_SUB_CHANNELS = <<>>
    /\ SHORTENER_URLS = <<>>
    /\ AUTO_DELETE_TIME = 0
    /\ DB_URI \in BOOLEAN
    /\ users = [u \in UserIds |-> NoUser]
    /\ batches = <<>>
    /\ req = IdleReq
    /\ batchReplies = <<>>
    /\ short = IdleShort
    /\ codec = IdleCodec
    /\ AtRest

NextBatch == \E reply_to \in {0} \cup MsgIds, arg \in BatchArgs : batch_handler(reply_to, arg)

SpecBatch == InitBatch /\ [][NextBatch]_vars

(***************************************************************************)
(* broadcast, main.py:561-583, and its specification: one run of the       *)
(* handler over an audience of up to MaxAudience users of whom at most     *)
(* MaxBlocked cannot be delivered to, with at most MaxFloods throttle      *)
(* signals.  Durations are in milliseconds.                                *)
(***************************************************************************)
\* a document of users_col, main.py:116-122
UserDoc(id, is_premium, banned) ==
    [id |-> id, is_premium |-> is_premium, banned |-> banned]

\* main.py:140-141
get_total_users == IF DB_URI THEN Len(users_col) ELSE 0

\* the values e.value of the FloodWait signals of the platform, in seconds
FloodWaits == {2, 5}

Seconds(n) == 1000 * n

\* main.py:575  asyncio.sleep(0.1)
RateLimitDelay == 100

\* a faulty variant of FloodSleep: the pause does not depend on the signal
FloodSleepFixed(value) == RateLimitDelay

\* main.py:577  asyncio.sleep(e.value)
FloodSleep(value) == Seconds(value)

\* a faulty variant of CountFailed: the failure is not counted
CountFailedNot(failed) == failed

\* main.py:581  failed += 1
CountFailed(failed) == failed + 1

\* message.reply_to_message.copy(user['_id']): attempt 1 is the call of
\* main.py:573, attempt 2 the call of main.py:578; result is "ok" or the
\* exception raised, value the wait a FloodWait carries
Copy(to, attempt, result, value) ==
    Event("copy", [to |-> to, attempt |-> attempt, result |-> result, value |-> value])

\* main.py:563-569: the store check, the status message, the cursor and the count
BroadcastStart ==
    /\ bc.pc = "called"
    /\ bc' = IF ~DB_URI
             THEN [bc EXCEPT !.pc = "done", !.log = <<Reply("no_db", <<>>)>>]
             ELSE [bc EXCEPT !.pc = "loop", !.total = get_total_users,
                             !.success = 0, !.failed = 0, !.idx = 1,
                             !.log = <<Reply("started", <<>>)>>]
    /\ UNCHANGED <<FORCE_SUB_CHANNELS, SHORTENER_URLS, AUTO_DELETE_TIME, DB_URI,
                   users, batches, req, batchReplies, short, codec,
                   users_col, procs, search>>

\* main.py:571-576, 580-581: the copy to the next user of the cursor; it
\* succeeds, raises FloodWait, or raises another exception (the user blocked
\* the bot or is deactivated)
BroadcastCopy ==
    /\ bc.pc = "loop"
    /\ bc.idx <= Len(users_col)
    /\ LET user == users_col[bc.idx] IN
       \/ /\ user.id \notin bc.blocked
          /\ bc' = [bc EXCEPT !.success = @ + 1, !.idx = @ + 1,
                              !.log = @ \o <<Copy(user.id, 1, "ok", 0),
                                             Event("sleep", RateLimitDelay)>>]
       \/ /\ user.id \in bc.blocked
          /\ bc' = [bc EXCEPT !.failed = CountFailed(@), !.idx = @ + 1,
                              !.log = Append(@, Copy(user.id, 1, "Exception", 0))]
       \/ /\ bc.floods < MaxFloods
          /\ \E value \in FloodWaits :
               bc' = [bc EXCEPT !.pc = "flood", !.value = value, !.floods = @ + 1,
                                !.log = Append(@, Copy(user.id, 1, "FloodWait", value))]
    /\ UNCHANGED <<FORCE_SUB_CHANNELS, SHORTENER_URLS, AUTO_DELETE_TIME, DB_URI,
                   users, batches, req, batchReplies, short, codec,
                   users_col, procs, search>>

\* main.py:576-577: the pause the signal asks for
BroadcastFloodSleep ==
    /\ bc.pc = "flood"
    /\ bc' = [bc EXCEPT !.pc = "retry",
                        !.log = Append(@, Event("sleep", FloodSleep(bc.value)))]
    /\ UNCHANGED <<FORCE_SUB_CHANNELS, SHORTENER_URLS, AUTO_DELETE_TIME, DB_URI,
                   users, batches, req, batchReplies, short, codec,
                   users_col, procs, search>>

\* main.py:578-579: the second copy to the same user, inside the except
\* clause: an exception it raises is handled by no clause and leaves the handler
BroadcastRetry ==
    /\ bc.pc = "retry"
    /\ LET user == users_col[bc.idx] IN
       \/ /\ user.id \notin bc.blocked
          /\ bc' = [bc EXCEPT !.pc = "loop", !.value = 0,
                              !.success = @ + 1, !.idx = @ + 1,
                              !.log = Append(@, Copy(user.id, 2, "ok", 0))]
       \/ /\ user.id \in bc.blocked
          /\ bc' = [bc EXCEPT !.pc = "raised", !.value = 0,
                              !.log = Append(@, Copy(user.id, 2, "Exception", 0))]
       \/ /\ bc.floods < MaxFloods
          /\ \E value \in FloodWaits :
               bc' = [bc EXCEPT !.pc = "raised", !.value = 0, !.floods = @ + 1,
                                !.log = Append(@, Copy(user.id, 2, "FloodWait", value))]
    /\ UNCHANGED <<FORCE_SUB_CHANNELS, SHORTENER_URLS, AUTO_DELETE_TIME, DB_URI,
                   users, batches, req, batchReplies, short, codec,
                   users_col, procs, search>>

\* main.py:583: the cursor is exhausted, the tally is written to the status message
BroadcastEnd ==
    /\ bc.pc = "loop"
    /\ bc.idx > Len(users_col)
    /\ bc' = [bc EXCEPT !.pc = "done",
                        !.log = Append(@, Event("edit", [total |-> bc.total,
                                                         success |-> bc.success,
                                                         failed |-> bc.failed]))]
    /\ UNCHANGED <<FORCE_SUB_CHANNELS, SHORTENER_URLS, AUTO_DELETE_TIME, DB_URI,
                   users, batches, req, batchReplies, short, codec,
                   users_col, procs, search>>

\* the users collection with n users; they registered through add_user
Audience(n) == [i \in 1..n |-> UserDoc(i, FALSE, FALSE)]

\* the sizes of the audiences a broadcast is run over: none, a few users, and
\* the largest
AudienceSizes == (0..3) \cup {MaxAudience}

InitBroadcast ==
    /\ FORCE_SUB_CHANNELS = <<>>
    /\ SHORTENER_URLS = <<>>
    /\ AUTO_DELETE_TIME = 0
    /\ DB_URI \in BOOLEAN
    /\ users = [u \in UserIds |-> NoUser]
    /\ batches = <<>>
    /\ req = IdleReq
    /\ batchReplies = <<>>
    /\ short = IdleShort
    /\ codec = IdleCodec
    /\ procs = [p \in Procs |-> IdleProc]
    /\ search = IdleSearch
    /\ users_col \in {Audience(n) : n \in AudienceSizes}
    /\ DB_URI \/ users_col = <<>>
    /\ bc \in {[IdleBc EXCEPT !.pc = "called", !.blocked = b] :
                 b \in {x \in SUBSET (1..Len(users_col)) : Cardinality(x) <= MaxBlocked}}

NextBroadcast ==
    \/ BroadcastStart
    \/ BroadcastCopy
    \/ BroadcastFloodSleep
    \/ BroadcastRetry
    \/ BroadcastEnd

\* the event loop resumes the handler until it returns or an exception leaves it
SpecBroadcast == InitBroadcast /\ [][NextBroadcast]_vars /\ WF_vars(NextBroadcast)

(***************************************************************************)
(* add_user under concurrency, main.py:113-122 and 355-364: the /start     *)
(* handlers of Procs run interleaved at their awaits, find_one and         *)
(* insert_one are separate calls to the store, and the administrator sets  *)
(* the ban flag in between.  users_col is a MongoDB collection keyed by    *)
(* _id: its unique index makes insert_one raise DuplicateKeyError for an   *)
(* _id that is present.                                                    *)
(***************************************************************************)
HasId(col, id) == \E k \in 1..Len(col) : col[k].id = id

\* the position of the first document with this _id
FirstWithId(col, id) ==
    CHOOSE k \in 1..Len(col) :
        /\ col[k].id = id
        /\ \A j \in 1..(k - 1) : col[j].id # id

\* find_one returns None
NoDoc == [id |-> 0, is_premium |-> FALSE, banned |-> FALSE]

\* users_col.find_one({"_id": id})
find_one(col, id) == IF HasId(col, id) THEN col[FirstWithId(col, id)] ELSE NoDoc

\* a faulty variant of insert_one: a collection without the unique index on _id
insert_one_NoIndex(col, doc) == [raised |-> FALSE, col |-> Append(col, doc)]

\* users_col.insert_one(doc), main.py:116: the collection afterwards, and
\* whether DuplicateKeyError was raised
insert_one(col, doc) ==
    IF HasId(col, doc.id) THEN [raised |-> TRUE, col |-> col]
    ELSE [raised |-> FALSE, col |-> Append(col, doc)]

\* main.py:136-138  update_one({"_id": user_id}, {"$set": {"banned": status}})
update_ban_status(col, user_id, status) ==
    IF ~HasId(col, user_id) THEN col
    ELSE [col EXCEPT ![FirstWithId(col, user_id)].banned = status]

\* a /start message of user_id arrives and a handler is started for it
StartArrives(p, user_id) ==
    /\ procs[p].pc \in {"idle", "returned", "banned", "raised"}
    /\ procs' = [procs EXCEPT ![p] = [pc |-> "find_one", user_id |-> user_id]]
    /\ UNCHANGED <<FORCE_SUB_CHANNELS, SHORTENER_URLS, AUTO_DELETE_TIME, DB_URI,
                   users, batches, req, batchReplies, short, codec,
                   users_col, bc, search>>

\* main.py:114-115: without a store add_user does nothing; with one it looks
\* the user up
AddUserFind(p) ==
    /\ procs[p].pc = "find_one"
    /\ procs' = [procs EXCEPT ![p].pc =
                    IF ~DB_URI \/ HasId(users_col, procs[p].user_id)
                    THEN "get_user" ELSE "insert_one"]
    /\ UNCHANGED <<FORCE_SUB_CHANNELS, SHORTENER_URLS, AUTO_DELETE_TIME, DB_URI,
                   users, batches, req, batchReplies, short, codec,
                   users_col, bc, search>>

\* main.py:116-122: the insert of the new record; DuplicateKeyError leaves
\* add_user and start_handler
AddUserInsert(p) ==
    /\ procs[p].pc = "insert_one"
    /\ LET r == insert_one(users_col, UserDoc(procs[p].user_id, FALSE, FALSE)) IN
       /\ users_col' = r.col
       /\ procs' = [procs EXCEPT ![p].pc = IF r.raised THEN "raised" ELSE "get_user"]
    /\ UNCHANGED <<FORCE_SUB_CHANNELS, SHORTENER_URLS, AUTO_DELETE_TIME, DB_URI,
                   users, batches, req, batchReplies, short, codec,
                   bc, search>>

\* main.py:361-364: the ban check; "returned" stands for the rest of the handler
GetUserBan(p) ==
    /\ procs[p].pc = "get_user"
    /\ LET user == IF DB_URI THEN find_one(users_col, procs[p].user_id) ELSE NoDoc IN
       procs' = [procs EXCEPT ![p].pc =
                    IF user # NoDoc /\ user.banned THEN "banned" ELSE "returned"]
    /\ UNCHANGED <<FORCE_SUB_CHANNELS, SHORTENER_URLS, AUTO_DELETE_TIME, DB_URI,
                   users, batches, req, batchReplies, short, codec,
                   users_col, bc, search>>

\* the administrator bans or unbans a user
UpdateBan(user_id, status) ==
    /\ DB_URI
    /\ users_col' = update_ban_status(users_col, user_id, status)
    /\ UNCHANGED <<FORCE_SUB_CHANNELS, SHORTENER_URLS, AUTO_DELETE_TIME, DB_URI,
                   users, batches, req, batchReplies, short, codec,
                   procs, bc, search>>

\* the collections the handlers can start from: empty, or holding records
\* whose flags the administrator has set
StoredUsers ==
    {<<>>}
    \cup {<<UserDoc(1, p, b)>> : p, b \in BOOLEAN}
    \cup {<<UserDoc(2, p, b), UserDoc(1, q, c)>> : p, b, q, c \in BOOLEAN}

InitUsers ==
    /\ FORCE_SUB_CHANNELS = <<>>
    /\ SHORTENER_URLS = <<>>
    /\ AUTO_DELETE_TIME = 0
    /\ DB_URI \in BOOLEAN
    /\ users = [u \in UserIds |-> NoUser]
    /\ batches = <<>>
    /\ req = IdleReq
    /\ batchReplies = <<>>
    /\ short = IdleShort
    /\ codec = IdleCodec
    /\ bc = IdleBc
    /\ search = IdleSearch
    /\ procs = [p \in Procs |-> IdleProc]
    /\ users_col \in StoredUsers
    /\ DB_URI \/ users_col = <<>>

NextUsers ==
    \/ \E p \in Procs, user_id \in UserIds : StartArrives(p, user_id)
    \/ \E p \in Procs : AddUserFind(p)
    \/ \E p \in Procs : AddUserInsert(p)
    \/ \E p \in Procs : GetUserBan(p)
    \/ \E user_id \in UserIds, status \in BOOLEAN : UpdateBan(user_id, status)

SpecUsers == InitUsers /\ [][NextUsers]_vars

(***************************************************************************)
(* search_handler, main.py:508-529, and its specification: one run on      *)
(* every text of 1..MaxQuery characters.  files_col is connected iff       *)
(* DB_URI.                                                                 *)
(***************************************************************************)
\* the characters of a text message
QueryChars == {"x", "y", " "}

\* the texts of private messages: a message has at least one character
Queries == UNION {[1..k -> QueryChars] : k \in 1..MaxQuery}

\* what search_files (main.py:159-163) gives back: the find raises (a query
\* that is no regular expression, a store error), no file, or files
SearchOutcomes == {"raise", "none", "some"}

\* a faulty variant of TooShort: no query is rejected
TooShortNever(query) == FALSE

\* main.py:513  if len(query) < 3
TooShort(query) == Len(query) < 3

\* main.py:509-529
search_handler ==
    /\ search.pc = "called"
    /\ IF ~DB_URI
       THEN search' = [search EXCEPT !.pc = "done"]
       ELSE IF TooShort(search.query)
       THEN search' = [search EXCEPT !.pc = "done",
                                     !.log = <<Reply("too_short", <<>>)>>]
       ELSE \E outcome \in SearchOutcomes :
              search' = [search EXCEPT
                   !.pc = IF outcome = "raise" THEN "raised" ELSE "done",
                   !.log = <<Reply("searching", <<>>),
                             Event("search_files", [kind |-> outcome, buttons |-> <<>>])>>
                           \o (IF outcome = "none"
                               THEN <<Event("edit", [kind |-> "no_files", buttons |-> <<>>])>>
                               ELSE IF outcome = "some"
                               THEN <<Event("edit", [kind |-> "results", buttons |-> <<>>])>>
                               ELSE <<>>)]
    /\ UNCHANGED <<FORCE_SUB_CHANNELS, SHORTENER_URLS, AUTO_DELETE_TIME, DB_URI,
                   users, batches, req, batchReplies, short, codec,
                   users_col, procs, bc>>

InitSearch ==
    /\ Quiet
    /\ SHORTENER_URLS = <<>>
    /\ DB_URI \in BOOLEAN
    /\ short = IdleShort
    /\ codec = IdleCodec
    /\ users_col = <<>>
    /\ procs = [p \in Procs |-> IdleProc]
    /\ bc = IdleBc
    /\ search \in {[IdleSearch EXCEPT !.pc = "called", !.query = q] : q \in Queries}

NextSearch == search_handler

SpecSearch == InitSearch /\ [][NextSearch]_vars

(***************************************************************************)
(* broadcast while /start handlers register users, main.py:561-583 with    *)
(* main.py:113-122: the handlers of Procs run interleaved with the         *)
(* broadcast at its awaits.  get_all_users (main.py:143-144) makes the     *)
(* cursor without reading the store and get_total_users counts at once;    *)
(* the cursor reads the documents as the loop asks for them, so a document *)
(* inserted after the count and before the cursor is exhausted is part of  *)
(* the audience.                                                           *)
(***************************************************************************)
InitBroadcastUsers ==
    /\ FORCE_SUB_CHANNELS = <<>>
    /\ SHORTENER_URLS = <<>>
    /\ AUTO_DELETE_TIME = 0
    /\ DB_URI = TRUE
    /\ users = [u \in UserIds |-> NoUser]
    /\ batches = <<>>
    /\ req = IdleReq
    /\ batchReplies = <<>>
    /\ short = IdleShort
    /\ codec = IdleCodec
    /\ search = IdleSearch
    /\ procs = [p \in Procs |-> IdleProc]
    /\ users_col \in {Audience(n) : n \in 0..1}
    /\ bc \in {[IdleBc EXCEPT !.pc = "called", !.blocked = b] :
                 b \in {x \in SUBSET UserIds : Cardinality(x) <= MaxBlocked}}

NextBroadcastUsers ==
    \/ BroadcastStart
    \/ BroadcastCopy
    \/ BroadcastFloodSleep
    \/ BroadcastRetry
    \/ BroadcastEnd
    \/ \E p \in Procs, user_id \in UserIds : StartArrives(p, user_id)
    \/ \E p \in Procs : AddUserFind(p)
    \/ \E p \in Procs : AddUserInsert(p)
    \/ \E p \in Procs : GetUserBan(p)

SpecBroadcastUsers == InitBroadcastUsers /\ [][NextBroadcastUsers]_vars

(***************************************************************************)
(* The claims.                                                             *)
(***************************************************************************)
Done == req.pc = "done"

Banned == req.user.present /\ req.user.banned

Copies == Ops(req.log, "copy_message")

ShortLinkCalls == Ops(req.log, "get_short_link")

HttpCalls == Ops(req.log, "http_get")

BatchLookups == Ops(req.log, "get_batch")

Replies == Ops(req.log, "reply")

\* the request went through the gate and the gate found no missing channel
PassedGate == Done /\ ~Banned /\ req.payload # <<>> /\ req.missing = <<>>

\* the gate found a missing channel
Denied == Done /\ ~Banned /\ req.payload # <<>> /\ req.missing # <<>>

\* the payload of the retry entry of the access-denied reply
RetryStart ==
    LET buttons == Replies[1].arg.buttons IN buttons[Len(buttons)].start

\* C1: a start request with a payload, from a user who is not banned, whose
\* membership gap is not empty ends with no content copy, no shortener call and
\* no batch lookup, and its one reply holds one join entry per missing channel,
\* numbered 1..n in the order of the gap, followed by one retry entry.
C1_GateHalts ==
    Denied =>
        /\ Copies = <<>>
        /\ ShortLinkCalls = <<>>
        /\ HttpCalls = <<>>
        /\ BatchLookups = <<>>
        /\ Len(Replies) = 1
        /\ Replies[1].arg.kind = "access_denied"
        /\ LET buttons == Replies[1].arg.buttons
               n == Len(req.missing)
           IN  /\ Len(buttons) = n + 1
               /\ \A i \in 1..n :
                    /\ buttons[i].kind = "join"
                    /\ buttons[i].n = i
                    /\ buttons[i].channel = req.missing[i]
               /\ buttons[n + 1].kind = "retry"

C1_Witness ==
    /\ Denied
    /\ req.payload = VERIFY \o encode(1)
    /\ Len(req.missing) = 2
    /\ Len(Replies[1].arg.buttons) = 3

\* C2 as stated: the retry entry of an access-denied reply carries the start
\* payload of the request unchanged, whatever its form.
C2_RetryUnchanged == Denied => RetryStart = req.payload

\* C2 as amended: the retry entry carries the start payload with the substring
\* verify_ removed: a payload that does not contain verify_ (a plain token, a
\* batch_ payload) unchanged, and for verify_<token> the plain <token>.
C2_RetryDropsVerify ==
    Denied =>
        /\ FindFrom(req.payload, VERIFY, 1) = 0 => RetryStart = req.payload
        /\ (/\ StartsWith(req.payload, VERIFY)
            /\ FindFrom(Drop(req.payload, Len(VERIFY)), VERIFY, 1) = 0)
           => RetryStart = Drop(req.payload, Len(VERIFY))

C2_Witness ==
    /\ Denied
    /\ req.payload = VERIFY \o encode(12)
    /\ RetryStart = encode(12)

\* C3: check_force_sub returns exactly the required channels, in configured
\* order, whose lookup reports the user as not a participant, banned or left; a
\* channel whose lookup fails otherwise is never included; with no required
\* channel it returns the empty list without any lookup.
C3_ForceSubExact ==
    req.pc \in {"denied", "passed"} =>
        LET n == Len(FORCE_SUB_CHANNELS)
            idx == SelectSeq([i \in 1..n |-> i],
                             LAMBDA i : req.results[i] \in {"UserNotParticipant", "BANNED", "LEFT"})
            lookups == Ops(req.log, "get_chat_member")
        IN  /\ req.missing = [k \in 1..Len(idx) |-> FORCE_SUB_CHANNELS[idx[k]]]
            /\ \A i \in 1..n : req.results[i] = "Exception" =>
                   \A k \in 1..Len(req.missing) : req.missing[k] # FORCE_SUB_CHANNELS[i]
            /\ Len(lookups) = n
            /\ \A i \in 1..n : lookups[i].arg = FORCE_SUB_CHANNELS[i]
            /\ n = 0 => (req.missing = <<>> /\ lookups = <<>>)

C3_Witness ==
    /\ req.pc = "denied"
    /\ req.results = <<"Exception", "LEFT">>
    /\ req.missing = <<"c2">>

\* the plain tokens of the model that decode to a content id
ValidPlainTokens == {t \in PlainTokens : decode(t) # 0}

\* C4: for a user who is neither premium nor banned and passes the gate while a
\* shortener is configured, a request with a valid plain token t makes no
\* content copy and replies with the result of shortening the deep link whose
\* payload is verify_t, and a request with payload verify_t copies exactly the
\* content whose id is decode(t) and makes no shortener call.
C4_VerificationFlow ==
    (PassedGate /\ ~is_prem(req.user) /\ SHORTENER_URLS # <<>>) =>
        \A t \in ValidPlainTokens :
            /\ req.payload = t =>
                 /\ Copies = <<>>
                 /\ Len(ShortLinkCalls) = 1
                 /\ ShortLinkCalls[1].arg = DeepLink(VERIFY \o t)
                 /\ Len(Replies) = 1
                 /\ Replies[1].arg.kind = "unlock"
                 /\ Replies[1].arg.buttons[1] \in
                        {DeepLink(VERIFY \o t)} \cup
                        {ShortUrl(k) : k \in {"shortenedUrl", "url", "short_url"}}
            /\ req.payload = VERIFY \o t =>
                 /\ Len(Copies) = 1
                 /\ Copies[1].arg.msg_id = decode(t)
                 /\ ShortLinkCalls = <<>>
                 /\ HttpCalls = <<>>

\* the payload is a plain token: it carries neither prefix
PlainPayload ==
    req.payload # <<>> /\ ~StartsWith(req.payload, BATCH) /\ ~StartsWith(req.payload, VERIFY)

\* C5: for a premium user who passes the gate, a request with a valid plain
\* token makes a direct content copy and no call to the shortener, whether or
\* not shorteners are configured.
C5_PremiumBypass ==
    (PassedGate /\ is_prem(req.user) /\ PlainPayload /\ decode(req.payload) # 0) =>
        /\ Len(Copies) = 1
        /\ Copies[1].arg.msg_id = decode(req.payload)
        /\ ShortLinkCalls = <<>>
        /\ HttpCalls = <<>>

C5_Witness ==
    /\ PassedGate
    /\ is_prem(req.user)
    /\ SHORTENER_URLS # <<>>
    /\ req.payload = encode(12)
    /\ Len(Copies) = 1
    /\ Copies[1].arg = [msg_id |-> 12, ok |-> TRUE]

\* C6: get_short_link returns the url unchanged when the provider call raises,
\* when the response is not JSON and when the JSON holds none of the recognized
\* keys; with an empty pool it returns the url without any HTTP call; it never
\* raises to its caller.
C6_ShortLinkFallback ==
    short.pc = "returned" =>
        /\ ~short.raised
        /\ short.response.kind \in {"raise", "not_json", "not_object"} =>
               short.url = short.long_url
        /\ (/\ short.response.kind = "json"
            /\ short.response.shortenedUrl = NoValue
            /\ short.response.url = NoValue
            /\ short.response.short_url = NoValue) => short.url = short.long_url
        /\ SHORTENER_URLS = <<>> => (short.url = short.long_url /\ short.http = <<>>)

C6_Witness ==
    /\ short.pc = "returned"
    /\ short.response.kind = "not_json"
    /\ Len(short.http) = 1
    /\ short.url = short.long_url

\* C7: decode(encode(i)) = i for every content id i; the padding encode strips
\* is restored by decode for every token length.
C7_RoundTrip == codec.pc = "roundtrip" => codec.out = codec.id

C7_Witness ==
    /\ codec.pc = "roundtrip"
    /\ codec.id = 123
    /\ Len(codec.token) = 4
    /\ codec.out = 123

\* the encodings of the content ids 1..MaxId: every encoding of at most 5
\* characters is among them
ValidTokens == {encode(i) : i \in 1..MaxId}

\* C8: decode returns 0 for every string that is not a valid encoding of a
\* content id.
C8_DecodeZeroOnInvalid ==
    (codec.pc = "decoded" /\ codec.token \notin ValidTokens) => codec.out = 0

C10_BatchIntegrity ==
    \A k \in 1..Len(batchReplies) :
        LET r == batchReplies[k]
            resolved == get_batch(r.batch_id)
        IN  (r.kind = "created" /\ r.end_id >= r.start_id) =>
                /\ resolved.found
                /\ Len(resolved.range_ids) = r.end_id - r.start_id + 1
                /\ \A j \in 1..Len(resolved.range_ids) :
                       resolved.range_ids[j] = r.start_id + j - 1


\* C11: every BatchRecord of the store holds a non-empty, strictly increasing,
\* contiguous range of ids, and no /batch command whose last id is below its
\* first id has created a batch.
C11_BatchRangeRequired ==
    /\ \A k \in 1..Len(batches) :
         LET r == batches[k].range_ids IN
         /\ Len(r) >= 1
         /\ \A j \in 1..(Len(r) - 1) : r[j + 1] = r[j] + 1
    /\ \A k \in 1..Len(batchReplies) :
         batchReplies[k].kind = "created" =>
             batchReplies[k].end_id >= batchReplies[k].start_id


\* the request resolved its batch_ payload to a stored BatchRecord
ResolvedBatch ==
    /\ req.mode = "batch"
    /\ Replies # <<>>
    /\ Replies[1].arg.kind = "processing"

\* the BatchRecord the payload of the request resolves to
StoredRange == get_batch(Split(req.payload, "_")[2]).range_ids

\* the ids of the copy attempts of the request, in the order they were made
CopyIds == [i \in 1..Len(Copies) |-> Copies[i].arg.msg_id]

\* the last call of the request removes the status message, and no other does
StatusRemoved ==
    /\ Len(Ops(req.log, "delete")) = 1
    /\ req.log[Len(req.log)].op = "delete"

\* C12: the delivery of a resolved batch attempts one copy per id of the stored
\* range, in stored order, whether earlier copies failed or not (inside the
\* loop the attempts made are the ids before the current one, at the end they
\* are the whole range), the status message is removed last and once, and a
\* delivery that has started always gets there.
C12_BatchDelivery ==
    /\ [](ResolvedBatch =>
            /\ req.pc = "batch_loop" =>
                 /\ CopyIds = SubSeq(StoredRange, 1, req.idx - 1)
                 /\ Ops(req.log, "delete") = <<>>
            /\ Done => CopyIds = StoredRange /\ StatusRemoved)
    /\ (req.pc = "batch_loop") ~> (Done /\ ResolvedBatch /\ StatusRemoved)

\* a batch of three ids was delivered although the copy of its first id
\* failed: the second and the third id were attempted and the status removed
C12_Witness ==
    /\ Done /\ ResolvedBatch /\ StatusRemoved
    /\ Len(Copies) = 3
    /\ ~Copies[1].arg.ok
    /\ CopyIds = <<1, 2, 3>>

\* C13: in the delivery of a batch a sleep of 0.8 lies between any two
\* consecutive copy attempts, whether the earlier one succeeded or failed.
C13_InterItemDelay ==
    req.mode = "batch" =>
        \A i, j \in 1..Len(req.log) :
            (i < j /\ req.log[i].op = "copy_message" /\ req.log[j].op = "copy_message")
            => \E k \in (i + 1)..(j - 1) : req.log[k].op = "sleep"

\* the deletion tasks created for delivered copies and for notices
FileTasks == SelectSeq(Ops(req.log, "create_task"), LAMBDA e : e.arg = "file")

NoteTasks == SelectSeq(Ops(req.log, "create_task"), LAMBDA e : e.arg = "note")

\* the self-destruct notices sent
Notes == SelectSeq(Replies, LAMBDA e : e.arg.kind = "note")

\* the call that follows call i of the request is the creation of a deletion
\* task for target
TaskFollows(i, target) ==
    /\ i < Len(req.log)
    /\ req.log[i + 1].op = "create_task"
    /\ req.log[i + 1].arg = target

\* C14: in every delivery path a copy that succeeded while the auto-delete
\* duration is > 0 is followed by the creation of one deletion task for it and
\* there are as many such tasks as successful copies; a copy that failed, or
\* one made while the duration is 0, is followed by none; every notice sent is
\* followed by the creation of its own deletion task and there are as many
\* such tasks as notices; with duration 0 there is no task and no notice.
C14_AutoDelete ==
    /\ \A i \in 1..Len(req.log) :
         /\ req.log[i].op = "copy_message" =>
              (TaskFollows(i, "file") <=> (req.log[i].arg.ok /\ AUTO_DELETE_TIME > 0))
         /\ (req.log[i].op = "reply" /\ req.log[i].arg.kind = "note") =>
              TaskFollows(i, "note")
    /\ Len(FileTasks) =
         Len(SelectSeq(Copies, LAMBDA e : e.arg.ok /\ AUTO_DELETE_TIME > 0))
    /\ Len(NoteTasks) = Len(Notes)
    /\ Len(FileTasks) + Len(NoteTasks) = Len(Ops(req.log, "create_task"))
    /\ AUTO_DELETE_TIME = 0 => Ops(req.log, "create_task") = <<>> /\ Notes = <<>>

\* a verify_ request delivered its copy with auto delete on: one task for the
\* copy, one notice, one task for the notice
C14_Witness ==
    /\ Done /\ req.mode = "verify" /\ AUTO_DELETE_TIME > 0
    /\ Len(Copies) = 1 /\ Copies[1].arg.ok
    /\ Len(FileTasks) = 1 /\ Len(Notes) = 1 /\ Len(NoteTasks) = 1


\* the copy attempts of the broadcast, in order, and those to one user
BcCopies == Ops(bc.log, "copy")

Attempts(to) == SelectSeq(BcCopies, LAMBDA e : e.arg.to = to)

\* the final tallies the broadcast has reported
Tallies == Ops(bc.log, "edit")

\* the broadcast got past its store check
BcStarted == DB_URI /\ bc.pc \notin {"idle", "called"}

\* the ids of the audience, in cursor order
AudienceIds == [k \in 1..Len(users_col) |-> users_col[k].id]

\* C15: whatever the outcomes per recipient, no exception leaves a broadcast
\* that entered its loop: it reaches its end, having attempted every user of
\* the audience, and reports its tally exactly once, as its last call.
C15_BroadcastCompletes ==
    /\ [](BcStarted => bc.pc \in {"loop", "flood", "retry", "done"})
    /\ []((BcStarted /\ bc.pc = "done") =>
            /\ \A k \in 1..Len(users_col) : Attempts(users_col[k].id) # <<>>
            /\ Len(Tallies) = 1
            /\ bc.log[Len(bc.log)].op = "edit")
    /\ (bc.pc = "loop") ~> (bc.pc = "done" /\ Len(Tallies) = 1)

\* the throttle signals the except clause of main.py:576 has caught
Signals ==
    SelectSeq(BcCopies, LAMBDA e : e.arg.attempt = 1 /\ e.arg.result = "FloodWait")

\* the pauses taken for throttle signals
FloodSleeps == SelectSeq(Ops(bc.log, "sleep"), LAMBDA e : e.arg # RateLimitDelay)

\* the users a copy was delivered to
Delivered == {BcCopies[i].arg.to : i \in {j \in 1..Len(BcCopies) : BcCopies[j].arg.result = "ok"}}

\* C16: a first copy that raises FloodWait with value w is followed by one
\* sleep of exactly w seconds and then by one second copy to the same user
\* (while the handler is on its way there it is in the pause or at the retry);
\* no user is attempted more than twice, and twice only after such a signal;
\* there is one pause per signal (none yet for the signal being handled);
\* every user a copy was delivered to, at the first or at the second attempt,
\* is counted once in success.
C16_ThrottleRetry ==
    BcStarted =>
        /\ \A i \in 1..Len(bc.log) :
             (/\ bc.log[i].op = "copy"
              /\ bc.log[i].arg.attempt = 1
              /\ bc.log[i].arg.result = "FloodWait") =>
                 /\ i = Len(bc.log) => bc.pc = "flood"
                 /\ i < Len(bc.log) =>
                      /\ bc.log[i + 1].op = "sleep"
                      /\ bc.log[i + 1].arg = 1000 * bc.log[i].arg.value
                 /\ i + 1 = Len(bc.log) => bc.pc = "retry"
                 /\ i + 1 < Len(bc.log) =>
                      /\ bc.log[i + 2].op = "copy"
                      /\ bc.log[i + 2].arg.to = bc.log[i].arg.to
                      /\ bc.log[i + 2].arg.attempt = 2
        /\ \A k \in 1..Len(users_col) :
             LET a == Attempts(users_col[k].id) IN
             /\ Len(a) <= 2
             /\ Len(a) = 2 => a[1].arg.result = "FloodWait" /\ a[2].arg.attempt = 2
             /\ Len(SelectSeq(a, LAMBDA e : e.arg.result = "ok")) <= 1
        /\ Len(FloodSleeps) = Len(Signals) - (IF bc.pc = "flood" THEN 1 ELSE 0)
        /\ bc.success = Cardinality(Delivered)

\* a broadcast over three users ended after the second user was throttled with
\* wait 2, paused for, retried with success and counted, and the third served
C16_Witness ==
    /\ BcStarted /\ bc.pc = "done"
    /\ Len(users_col) = 3
    /\ Len(Attempts(2)) = 2
    /\ Attempts(2)[1].arg.value = 2
    /\ Attempts(2)[2].arg.result = "ok"
    /\ Len(FloodSleeps) = 1 /\ FloodSleeps[1].arg = 2000
    /\ Tallies[1].arg.success = 3
    /\ Attempts(3) # <<>>

\* C17: a broadcast that ended without a throttle signal attempted every user
\* of the audience once, in cursor order, and reports as success the number of
\* copies that succeeded and as failed the number of copies that raised; with
\* ten users of whom the third and the seventh cannot be delivered to it
\* reports success 8 and failed 2.
C17_BroadcastTally ==
    (BcStarted /\ bc.pc = "done" /\ \A i \in 1..Len(BcCopies) : BcCopies[i].arg.result # "FloodWait") =>
        /\ [i \in 1..Len(BcCopies) |-> BcCopies[i].arg.to] = AudienceIds
        /\ \A i \in 1..Len(BcCopies) : BcCopies[i].arg.attempt = 1
        /\ Len(Tallies) = 1
        /\ Tallies[1].arg.success =
             Cardinality({i \in 1..Len(BcCopies) : BcCopies[i].arg.result = "ok"})
        /\ Tallies[1].arg.failed =
             Cardinality({i \in 1..Len(BcCopies) : BcCopies[i].arg.result = "Exception"})
        /\ (Len(users_col) = 10 /\ bc.blocked = {3, 7}) =>
             Tallies[1].arg.success = 8 /\ Tallies[1].arg.failed = 2

\* the broadcast over ten users whose third and seventh user fail ended
\* without a throttle signal and reported 8 and 2
C17_Witness ==
    /\ BcStarted /\ bc.pc = "done"
    /\ Len(users_col) = 10 /\ bc.blocked = {3, 7}
    /\ Len(BcCopies) = 10
    /\ BcCopies[3].arg.result = "Exception" /\ BcCopies[7].arg.result = "Exception"
    /\ Tallies[1].arg.success = 8 /\ Tallies[1].arg.failed = 2


\* C18: under every interleaving of the /start handlers, users_col holds at
\* most one document per user id, and a step of add_user (its lookup or its
\* insert) made for a user id that has a document leaves that document as it was.
C18_UserUpsert ==
    /\ [](\A i, j \in 1..Len(users_col) : users_col[i].id = users_col[j].id => i = j)
    /\ [][\A p \in Procs :
            ((AddUserFind(p) \/ AddUserInsert(p)) /\ HasId(users_col, procs[p].user_id))
            => /\ HasId(users_col', procs[p].user_id)
               /\ find_one(users_col', procs[p].user_id)
                    = find_one(users_col, procs[p].user_id)]_vars

\* two first-time requests of one user raced: the insert of the second handler
\* was refused while the record made by the first had already been banned
C18_Witness ==
    \E p, q \in Procs :
        /\ p # q
        /\ procs[p].user_id = procs[q].user_id
        /\ procs[p].pc = "raised"
        /\ procs[q].pc \in {"get_user", "banned"}
        /\ find_one(users_col, procs[p].user_id).banned
        /\ Len(users_col) = 1


\* the calls search_handler made to the file index
IndexCalls == Ops(search.log, "search_files")

\* search_handler has returned from a query of fewer than 3 characters
ShortQueryDone == search.pc \in {"done", "raised"} /\ Len(search.query) < 3

\* C19 as stated: a query of fewer than 3 characters is answered with the
\* rejection reply and causes no call to the file index.
C19_ShortQueryRejected ==
    ShortQueryDone =>
        /\ IndexCalls = <<>>
        /\ Len(search.log) = 1
        /\ search.log[1].op = "reply"
        /\ search.log[1].arg.kind = "too_short"

\* C19, amended: a query of fewer than 3 characters never causes a call to
\* the file index; while a store is connected it is answered with the
\* rejection reply and nothing else, and without a store search_handler
\* returns without any reply.
C19_ShortQuery ==
    ShortQueryDone =>
        /\ IndexCalls = <<>>
        /\ search.pc = "done"
        /\ DB_URI =>
             /\ Len(search.log) = 1
             /\ search.log[1].op = "reply"
             /\ search.log[1].arg.kind = "too_short"
        /\ ~DB_URI => search.log = <<>>

\* the query "xy" was rejected while a store is connected
C19_Witness ==
    /\ search.pc = "done"
    /\ search.query = <<"x", "y">>
    /\ DB_URI
    /\ Len(search.log) = 1
    /\ search.log[1].arg.kind = "too_short"

\* C20: a start request of a user whose stored record is banned makes one
\* call, the banned notice, whatever its payload: no membership lookup, no
\* batch lookup, no shortener call and no content copy.
C20_BannedOnlyNotice ==
    \A u \in UserIds :
        (req.pc \notin {"idle", "add_user", "get_user"} /\ req.user_id = u
         /\ DB_URI /\ users[u].present /\ users[u].banned) =>
            /\ Done
            /\ Len(req.log) = 1
            /\ req.log[1].op = "reply"
            /\ req.log[1].arg.kind = "banned"
            /\ Ops(req.log, "get_chat_member") = <<>>
            /\ BatchLookups = <<>>
            /\ ShortLinkCalls = <<>>
            /\ HttpCalls = <<>>
            /\ Copies = <<>>

\* a banned user sent a verify_ payload for a valid token while channels and
\* shorteners are configured, and got the banned notice
C20_Witness ==
    /\ Done
    /\ DB_URI /\ users[req.user_id].present /\ users[req.user_id].banned
    /\ req.payload = VERIFY \o encode(1)
    /\ FORCE_SUB_CHANNELS # <<>>
    /\ SHORTENER_URLS # <<>>
    /\ Len(req.log) = 1
    /\ req.log[1].arg.kind = "banned"


\* C21: while a shortener is configured, every content copy made for a user
\* who is not premium is made in a request whose payload starts with verify_:
\* neither a plain token nor a batch_ payload delivers content to such a user.
C21_VerifiedDelivery ==
    (/\ SHORTENER_URLS # <<>>
     /\ ~is_prem(req.user)
     /\ \E i \in 1..Len(Copies) : Copies[i].arg.ok) =>
        StartsWith(req.payload, VERIFY)

\* the delivery errors the request has reported
DeliveryErrors == SelectSeq(Replies, LAMBDA e : e.arg.kind = "error_fetching")

\* C22: a request reports a delivery error only if a content copy of it
\* failed, and a request whose copy succeeded reports none.
C22_ErrorOnlyOnFailedCopy ==
    /\ DeliveryErrors # <<>> => \E i \in 1..Len(Copies) : ~Copies[i].arg.ok
    /\ (req.mode \in {"verify", "normal"} /\ \E i \in 1..Len(Copies) : Copies[i].arg.ok)
         => DeliveryErrors = <<>>


\* C23: the total a broadcast reports is the sum of the success and failed
\* counts it reports, and is the number of users it attempted, also when
\* /start handlers register users while it runs.
C23_TotalIsAttempted ==
    \A i \in 1..Len(Tallies) :
        /\ Tallies[i].arg.total = Tallies[i].arg.success + Tallies[i].arg.failed
        /\ Tallies[i].arg.total =
             Cardinality({BcCopies[j].arg.to : j \in 1..Len(BcCopies)})

=============================================================================
